---- MODULE Spec2Model ----
(***************************************************************************)
(* PNGme: chunk types (chunk_type.rs), chunks (chunk.rs) and the commands  *)
(* of main.rs that parse a PNG file, look up / append / remove a chunk and *)
(* write the file back.                                                    *)
(*                                                                         *)
(* A byte is a number 0..255 and a byte string a sequence of bytes.  A u32 *)
(* is kept as the pair <<high 16 bits, low 16 bits>>, so that all 32 bits  *)
(* of a length field or of a CRC are represented.                          *)
(***************************************************************************)
EXTENDS Integers, Sequences, FiniteSets, TLC

----------------------------------------------------------------------------
(* u32 arithmetic *)

RECURSIVE XorBits(_, _)
\* Bitwise exclusive or of two naturals, bit by bit.
XorBits(a, b) ==
    IF a = 0 THEN b
    ELSE IF b = 0 THEN a
    ELSE ((a + b) % 2) + 2 * XorBits(a \div 2, b \div 2)

\* u8 ^ u8, tabulated.
XorTable == [a \in 0..255 |-> [b \in 0..255 |-> XorBits(a, b)]]
Xor(a, b) == XorTable[a][b]

\* u16 ^ u16
Xor16(a, b) == 256 * Xor(a \div 256, b \div 256) + Xor(a % 256, b % 256)

\* u32 ^ u32
Xor32(x, y) == << Xor16(x[1], y[1]), Xor16(x[2], y[2]) >>

\* u32 >> 1
Shr1(x) == << x[1] \div 2, (x[2] \div 2) + (x[1] % 2) * 32768 >>

\* `n as u32` for a usize n below 2^31: the low 32 bits.
as_u32(n) == << (n \div 65536) % 65536, n % 65536 >>

\* u32::to_be_bytes: most significant byte first.
to_be_bytes(x) == << x[1] \div 256, x[1] % 256, x[2] \div 256, x[2] % 256 >>

\* u32::from_be_bytes on a 4-byte array.
from_be_bytes(b) == << b[1] * 256 + b[2], b[3] * 256 + b[4] >>

\* `8 + (x as usize) <= n` on a 64-bit target, n a length below 2^31.
EndWithin(x, n) == x[1] < 32768 /\ 8 + x[1] * 65536 + x[2] <= n

\* `x as usize` for an x already known to be below 2^31.
as_usize(x) == x[1] * 65536 + x[2]

----------------------------------------------------------------------------
(* CRC-32/ISO-HDLC: reflected polynomial 0xEDB88320, init and xorout       *)
(* 0xFFFFFFFF, input and output reflected.                                 *)

CrcPoly == << 60856, 33568 >>      \* 0xEDB8 8320
CrcInit == << 65535, 65535 >>
CrcXorOut == << 65535, 65535 >>

\* u32 >> 8
Shr8(x) == << x[1] \div 256, (x[2] \div 256) + (x[1] % 256) * 256 >>

CrcBit(c) == IF c[2] % 2 = 1 THEN Xor32(Shr1(c), CrcPoly) ELSE Shr1(c)

\* The table entry of byte n: n taken through 8 shift-and-xor rounds.
CrcEntry(n) ==
    CrcBit(CrcBit(CrcBit(CrcBit(CrcBit(CrcBit(CrcBit(CrcBit(<< 0, n >>))))))))

CrcTable == [n \in 0..255 |-> CrcEntry(n)]

\* One byte b into the register c: table[(c ^ b) & 0xFF] ^ (c >> 8)
CrcStep(c, b) == Xor32(CrcTable[Xor(c[2] % 256, b)], Shr8(c))

RECURSIVE CrcUpdate(_, _)
\* The register after the first n bytes.  (The set binds the register to
\* its value before the next byte is taken in.)
CrcUpdate(bs, n) ==
    IF n = 0 THEN CrcInit
    ELSE CHOOSE r \in { CrcStep(c, bs[n]) : c \in { CrcUpdate(bs, n - 1) } } :
            TRUE

\* Crc::<u32>::new(&CRC_32_ISO_HDLC).checksum(bs)
checksum(bs) == Xor32(CrcUpdate(bs, Len(bs)), CrcXorOut)

----------------------------------------------------------------------------
(* Results: Ok(val), Err(err) returned to the caller, or a panic.          *)

NoVal == [none |-> TRUE]
Ok(v) == [kind |-> "Ok", val |-> v, err |-> "-"]
Err(e) == [kind |-> "Err", val |-> NoVal, err |-> e]
Panic == [kind |-> "Panic", val |-> NoVal, err |-> "index out of range"]
Pending == [kind |-> "Pending", val |-> NoVal, err |-> "-"]

IsOk(r) == r.kind = "Ok"
IsErr(r) == r.kind = "Err"

----------------------------------------------------------------------------
(* chunk_type.rs *)

is_ascii_uppercase(b) == b >= 65 /\ b <= 90
is_ascii_lowercase(b) == b >= 97 /\ b <= 122
is_ascii_alphabetic(b) == is_ascii_uppercase(b) \/ is_ascii_lowercase(b)

\* ChunkType::bytes
bytes(ct) == ct.code

is_critical(ct) == is_ascii_uppercase(ct.code[1])
is_public(ct) == is_ascii_uppercase(ct.code[2])
is_reserved_bit_valid(ct) == is_ascii_uppercase(ct.code[3])
\* is_safe_to_copy testing for an upper-case letter, like the other three
is_safe_to_copy_upper(ct) == is_ascii_uppercase(ct.code[4])
is_safe_to_copy(ct) == is_ascii_lowercase(ct.code[4])
is_valid(ct) == is_reserved_bit_valid(ct)

\* try_from with `any` in place of `all`
ChunkType_try_from_any(v) ==
    IF \E i \in 1..4 : is_ascii_alphabetic(v[i])
    THEN Ok([code |-> v])
    ELSE Err("Can't create chunk type with invalid data")

\* impl TryFrom<[u8; 4]> for ChunkType
ChunkType_try_from(v) ==
    IF \A i \in 1..4 : is_ascii_alphabetic(v[i])
    THEN Ok([code |-> v])
    ELSE Err("Can't create chunk type with invalid data")

\* impl FromStr for ChunkType; s is the string's UTF-8 bytes.
ChunkType_from_str(s) ==
    IF Len(s) # 4
    THEN Err("Can't create chunk type with size (expected 4)")
    ELSE ChunkType_try_from(s)

RECURSIVE IsUtf8(_)
\* Whether a byte string is a &str (one- and two-byte encodings; the byte
\* alphabets of the model hold no lead byte of a longer encoding).
IsUtf8(s) ==
    IF s = << >> THEN TRUE
    ELSE IF s[1] < 128 THEN IsUtf8(Tail(s))
    ELSE /\ s[1] >= 194 /\ s[1] <= 223
         /\ Len(s) >= 2 /\ s[2] >= 128 /\ s[2] <= 191
         /\ IsUtf8(Tail(Tail(s)))

----------------------------------------------------------------------------
(* chunk.rs *)

Chunk_new(chunk_type, data) == [chunk_type |-> chunk_type, data |-> data]

\* Chunk::length: data.len() as u32
length(c) == as_u32(Len(c.data))

\* Chunk::crc: over the type's bytes followed by the data
crc(c) == checksum(bytes(c.chunk_type) \o c.data)

\* as_bytes writing the length least significant byte first
as_bytes_le_length(c) ==
    << length(c)[2] % 256, length(c)[2] \div 256,
       length(c)[1] % 256, length(c)[1] \div 256 >>
        \o bytes(c.chunk_type) \o c.data \o to_be_bytes(crc(c))

\* as_bytes writing the CRC least significant byte first
as_bytes_le_crc(c) ==
    to_be_bytes(length(c)) \o bytes(c.chunk_type) \o c.data
        \o << crc(c)[2] % 256, crc(c)[2] \div 256,
              crc(c)[1] % 256, crc(c)[1] \div 256 >>

\* Chunk::as_bytes: length + type + data + CRC
as_bytes(c) ==
    to_be_bytes(length(c)) \o bytes(c.chunk_type) \o c.data
        \o to_be_bytes(crc(c))

\* try_from without the comparison of the stored CRC
Chunk_try_from_unchecked(value) ==
    IF Len(value) < 8 THEN Panic
    ELSE
      LET len == from_be_bytes(SubSeq(value, 1, 4))
          ct  == ChunkType_try_from(SubSeq(value, 5, 8))
      IN  IF ~IsOk(ct) THEN Err(ct.err)
          ELSE IF ~EndWithin(len, Len(value)) THEN Panic
          ELSE IF Len(value) - 8 - as_usize(len) # 4
          THEN Err("TryFromSliceError")
          ELSE Ok(Chunk_new(ct.val, SubSeq(value, 9, 8 + as_usize(len))))

\* try_from reading the CRC from the 4 bytes after the data, whatever follows
Chunk_try_from_prefix(value) ==
    IF Len(value) < 8 THEN Panic
    ELSE
      LET len == from_be_bytes(SubSeq(value, 1, 4))
          ct  == ChunkType_try_from(SubSeq(value, 5, 8))
      IN  IF ~IsOk(ct) THEN Err(ct.err)
          ELSE IF ~EndWithin(len, Len(value) - 4) THEN Panic
          ELSE
            LET n      == as_usize(len)
                stored == from_be_bytes(SubSeq(value, 9 + n, 12 + n))
                chunk  == Chunk_new(ct.val, SubSeq(value, 9, 8 + n))
            IN  IF crc(chunk) # stored
                THEN Err("Bad chunk: CRC mismatch")
                ELSE Ok(chunk)

\* impl TryFrom<&[u8]> for Chunk.  A slice index out of range panics; the
\* conversion of a slice to [u8; 4] fails unless the slice holds 4 bytes.
Chunk_try_from(value) ==
    IF Len(value) < 4 THEN Panic                      \* value[0..4]
    ELSE IF Len(value) < 8 THEN Panic                 \* value[4..8]
    ELSE
      LET len == from_be_bytes(SubSeq(value, 1, 4))
          ct  == ChunkType_try_from(SubSeq(value, 5, 8))
      IN  IF ~IsOk(ct) THEN Err(ct.err)
          ELSE IF ~EndWithin(len, Len(value)) THEN Panic  \* value[8..8+length]
          ELSE
            LET n          == as_usize(len)
                chunk_data == SubSeq(value, 9, 8 + n)
                rest       == SubSeq(value, 9 + n, Len(value))
            IN  IF Len(rest) # 4 THEN Err("TryFromSliceError")
                ELSE
                  LET stored == from_be_bytes(rest)
                      chunk  == Chunk_new(ct.val, chunk_data)
                  IN  IF crc(chunk) # stored
                      THEN Err("Bad chunk: CRC mismatch")
                      ELSE Ok(chunk)

----------------------------------------------------------------------------
(* The PNG container (module png, used by main.rs): the 8-byte signature   *)
(* and the chunks in file order.                                           *)

STANDARD_HEADER == << 137, 80, 78, 71, 13, 10, 26, 10 >>

Some(v) == [some |-> TRUE, val |-> v]
None == [some |-> FALSE, val |-> NoVal]

RECURSIVE ParseChunks(_, _, _)
\* The chunks of bs from index `cursor` on, after the chunks `acc`: each is
\* decoded from the 12 + length bytes its length field frames.
ParseChunks(bs, cursor, acc) ==
    IF cursor > Len(bs) THEN Ok([chunks |-> acc])
    ELSE IF Len(bs) - cursor + 1 < 4 THEN Err("Bad PNG: truncated chunk")
    ELSE
      LET len == from_be_bytes(SubSeq(bs, cursor, cursor + 3))
      IN  IF ~EndWithin(len, Len(bs) - cursor + 1 - 4)
          THEN Err("Bad PNG: truncated chunk")
          ELSE
            LET size == 12 + as_usize(len)
                r    == Chunk_try_from(SubSeq(bs, cursor, cursor + size - 1))
            IN  IF ~IsOk(r) THEN r
                ELSE ParseChunks(bs, cursor + size, Append(acc, r.val))

\* try_from without the signature check
Png_try_from_unsigned(bs) ==
    IF Len(bs) < 8 THEN Err("Bad PNG: invalid signature")
    ELSE ParseChunks(bs, 9, << >>)

\* Png::try_from(&[u8])
Png_try_from(bs) ==
    IF Len(bs) < 8 \/ SubSeq(bs, 1, 8) # STANDARD_HEADER
    THEN Err("Bad PNG: invalid signature")
    ELSE ParseChunks(bs, 9, << >>)

RECURSIVE ChunksBytes(_)
ChunksBytes(cs) ==
    IF cs = << >> THEN << >> ELSE as_bytes(Head(cs)) \o ChunksBytes(Tail(cs))

\* Png::as_bytes
Png_as_bytes(png) == STANDARD_HEADER \o ChunksBytes(png.chunks)

\* Png::append_chunk
append_chunk(png, chunk) == [chunks |-> Append(png.chunks, chunk)]

\* The position of the first chunk of type t, 0 when there is none.
Position(png, t) ==
    IF \E i \in 1..Len(png.chunks) : png.chunks[i].chunk_type = t
    THEN CHOOSE i \in 1..Len(png.chunks) :
            /\ png.chunks[i].chunk_type = t
            /\ \A j \in 1..(i - 1) : png.chunks[j].chunk_type # t
    ELSE 0

\* The position of the last chunk of type t, 0 when there is none.
LastPosition(png, t) ==
    IF \E i \in 1..Len(png.chunks) : png.chunks[i].chunk_type = t
    THEN CHOOSE i \in 1..Len(png.chunks) :
            /\ png.chunks[i].chunk_type = t
            /\ \A j \in (i + 1)..Len(png.chunks) : png.chunks[j].chunk_type # t
    ELSE 0

\* chunk_by_type returning the last match
chunk_by_type_last(png, t) ==
    IF LastPosition(png, t) = 0 THEN None
    ELSE Some(png.chunks[LastPosition(png, t)])

\* Png::chunk_by_type
chunk_by_type(png, t) ==
    IF Position(png, t) = 0 THEN None ELSE Some(png.chunks[Position(png, t)])

\* remove_chunk taking out the last match
remove_chunk_last(png, t) ==
    LET i == LastPosition(png, t)
    IN  IF i = 0
        THEN [png |-> png, ret |-> Err("chunk not found")]
        ELSE [png |-> [chunks |-> SubSeq(png.chunks, 1, i - 1)
                                     \o SubSeq(png.chunks, i + 1, Len(png.chunks))],
              ret |-> Ok(png.chunks[i])]

\* Png::remove_chunk: the container afterwards and the value returned.
remove_chunk(png, t) ==
    LET i == Position(png, t)
    IN  IF i = 0
        THEN [png |-> png, ret |-> Err("chunk not found")]
        ELSE [png |-> [chunks |-> SubSeq(png.chunks, 1, i - 1)
                                     \o SubSeq(png.chunks, i + 1, Len(png.chunks))],
              ret |-> Ok(png.chunks[i])]

\* Chunk::data_as_string
data_as_string(c) == IF IsUtf8(c.data) THEN Ok(c.data) ELSE Err("FromUtf8Error")

----------------------------------------------------------------------------
(* main.rs: one command on the file's bytes bs.  The outcome is the bytes  *)
(* of the file afterwards, the command's result, and what the command saw:  *)
(* the parsed container, the value the container's method returned and the *)
(* container after the call.                                               *)

Outcome(bs, exit, parsed, ret, after) ==
    [file |-> bs, exit |-> exit, parsed |-> parsed, ret |-> ret, after |-> after]

encode(bs, chunk_type, message) ==
    LET parsed == Png_try_from(bs)
        t      == ChunkType_from_str(chunk_type)
    IN  IF ~IsOk(parsed) THEN Outcome(bs, parsed, parsed, NoVal, NoVal)
        ELSE IF ~IsOk(t) THEN Outcome(bs, Err(t.err), parsed, NoVal, NoVal)
        ELSE
          LET chunk == Chunk_new(t.val, message)
              png   == append_chunk(parsed.val, chunk)
          IN  Outcome(Png_as_bytes(png), Ok("()"), parsed, NoVal, png)

decode(bs, chunk_type) ==
    LET parsed == Png_try_from(bs)
        t      == ChunkType_from_str(chunk_type)
    IN  IF ~IsOk(parsed) THEN Outcome(bs, parsed, parsed, NoVal, NoVal)
        ELSE IF ~IsOk(t) THEN Outcome(bs, Err(t.err), parsed, NoVal, NoVal)
        ELSE
          LET chunk == chunk_by_type(parsed.val, t.val)
          IN  IF chunk.some /\ ~IsOk(data_as_string(chunk.val))
              THEN Outcome(bs, data_as_string(chunk.val), parsed, chunk,
                           parsed.val)
              ELSE Outcome(bs, Ok("()"), parsed, chunk, parsed.val)

remove(bs, chunk_type) ==
    LET parsed == Png_try_from(bs)
        t      == ChunkType_from_str(chunk_type)
    IN  IF ~IsOk(parsed) THEN Outcome(bs, parsed, parsed, NoVal, NoVal)
        ELSE IF ~IsOk(t) THEN Outcome(bs, Err(t.err), parsed, NoVal, NoVal)
        ELSE
          LET r == remove_chunk(parsed.val, t.val)
          IN  IF ~IsOk(r.ret) THEN Outcome(bs, Ok("()"), parsed, r.ret, r.png)
              ELSE IF ~IsOk(data_as_string(r.ret.val))
              THEN Outcome(bs, data_as_string(r.ret.val), parsed, r.ret, r.png)
              ELSE Outcome(Png_as_bytes(r.png), Ok("()"), parsed, r.ret, r.png)

print(bs) ==
    LET parsed == Png_try_from(bs)
    IN  IF ~IsOk(parsed) THEN Outcome(bs, parsed, parsed, NoVal, NoVal)
        ELSE Outcome(bs, Ok("()"), parsed, NoVal, parsed.val)

----------------------------------------------------------------------------
(* Bounds and input alphabets *)

MaxStrLen == 5
MaxData == 2
MaxTrail == 2
MaxChunks == 2

\* '@' 'A' 'Z' '[' '`' 'a' 'z' '{' and 0xC1 ('A' with the top bit set)
TypeBytes == {64, 65, 90, 91, 96, 97, 122, 123, 193}

\* "RuSt" "ruSt" "Rust" "RUSt" "RuST": the types of the repository's tests
ValidCodes == { <<82, 117, 83, 116>>, <<114, 117, 83, 116>>,
                <<82, 117, 115, 116>>, <<82, 85, 83, 116>>,
                <<82, 117, 83, 84>> }
\* "Ru1t", and two strings with a two-byte character: "\u00E9ab" (4 bytes,
\* 3 characters) and "Ru\u00E9t" (5 bytes, 4 characters)
InvalidCodes == { <<82, 117, 49, 116>>, <<195, 169, 97, 98>>,
                  <<82, 117, 195, 169, 116>> }

\* The inputs of chunk type construction: every string of at most n of
\* these bytes, and the strings of the tests.
Inputs(n) ==
    UNION { [1..k -> TypeBytes] : k \in 0..n } \cup ValidCodes \cup InvalidCodes

\* NUL, 'h' and 0xFF
DataBytes == {0, 104, 255}
Datas(n) == UNION { [1..k -> DataBytes] : k \in 0..n }

\* The chunk types a caller builds chunks with: "RuSt" and "ruSt"
ChunkTypes == { [code |-> <<82, 117, 83, 116>>],
                [code |-> <<114, 117, 83, 116>>] }

\* Type fields of forged input: "RuSt", "Ru1t", "Ru[t"
ForgedCodes == { <<82, 117, 83, 116>>, <<82, 117, 49, 116>>,
                 <<82, 117, 91, 116>> }

\* Length fields written over a serialized chunk's own: 0, 1, MaxData + 1,
\* 0x00010000, 0x80000000, 0xFFFFFFFF
LengthFields == { as_u32(0), as_u32(1), as_u32(MaxData + 1),
                  <<1, 0>>, <<32768, 0>>, <<65535, 65535>> }

\* The chunk_type arguments of the commands: "ruSt", "RuSt", "Ru1t"
TypeArgs == { <<114, 117, 83, 116>>, <<82, 117, 83, 116>>,
              <<82, 117, 49, 116>> }

\* The message arguments of encode: "h", "hi"
Messages == { <<104>>, <<104, 105>> }

\* The files the commands are first run on: a signature with no chunk, and
\* one followed by a RuSt chunk whose data is the byte 0xFF (CRC 0xD0BBF88E).
InitialFiles ==
    { STANDARD_HEADER,
      STANDARD_HEADER \o << 0, 0, 0, 1, 82, 117, 83, 116, 255,
                            208, 187, 248, 142 >> }

\* The bit a damaged file has inverted: the lowest of a byte.
TamperBits == {0}

\* The bytes damage hits: the ends of the signature, and the last 14 bytes
\* (the last chunk, when its data is a message of at most 2 bytes).
TamperAt(bs) == {1, 8} \cup { i \in 1..Len(bs) : i > Len(bs) - 14 }

Pow2(b) == << 1, 2, 4, 8, 16, 32, 64, 128 >>[b + 1]

\* A byte string with bit b of its i-th byte inverted.
FlipBitAt(bs, i, b) == [bs EXCEPT ![i] = Xor(@, Pow2(b))]

VARIABLES input, ctype, flags

VARIABLES value, orig, edit, res

ctvars == << input, ctype, flags >>
chvars == << value, orig, edit, res >>

VARIABLES file, run, tampered

pgvars == << file, run, tampered >>

vars == << input, ctype, flags, value, orig, edit, res, file, run, tampered >>

NoFlags == [critical |-> FALSE, public |-> FALSE, reserved |-> FALSE,
            safe |-> FALSE, valid |-> FALSE, read |-> FALSE]

NoEdit == [op |-> "-", at |-> 0, bit |-> 0]

IdleChunkType ==
    /\ input = << >>
    /\ ctype = [via |-> "-", res |-> Pending]
    /\ flags = NoFlags

IdleChunk ==
    /\ value = << >>
    /\ orig = NoVal
    /\ edit = NoEdit
    /\ res = Pending

NoRun == [cmd |-> "-", chunk_type |-> << >>, message |-> << >>,
          input |-> << >>, exit |-> Pending, parsed |-> Pending,
          ret |-> NoVal, after |-> NoVal]

IdleProgram ==
    /\ file = STANDARD_HEADER
    /\ run = NoRun
    /\ tampered = FALSE

----------------------------------------------------------------------------
(* Chunk type construction: the caller holds `input` and builds a type     *)
(* from it with one of the two constructors, then reads its flags.         *)

InitChunkType ==
    /\ input \in Inputs(MaxStrLen)
    /\ ctype = [via |-> "-", res |-> Pending]
    /\ flags = NoFlags
    /\ IdleChunk
    /\ IdleProgram

\* ChunkType::try_from(input) on a 4-byte array
TryFromBytes ==
    /\ ctype.via = "-"
    /\ Len(input) = 4
    /\ ctype' = [via |-> "try_from", res |-> ChunkType_try_from(input)]
    /\ UNCHANGED << input, flags, chvars, pgvars >>

\* ChunkType::from_str(input) on a string
FromStr ==
    /\ ctype.via = "-"
    /\ IsUtf8(input)
    /\ ctype' = [via |-> "from_str", res |-> ChunkType_from_str(input)]
    /\ UNCHANGED << input, flags, chvars, pgvars >>

\* The five property methods on a constructed type
ReadFlags ==
    /\ IsOk(ctype.res)
    /\ ~flags.read
    /\ flags' = [critical |-> is_critical(ctype.res.val),
                 public   |-> is_public(ctype.res.val),
                 reserved |-> is_reserved_bit_valid(ctype.res.val),
                 safe     |-> is_safe_to_copy(ctype.res.val),
                 valid    |-> is_valid(ctype.res.val),
                 read     |-> TRUE]
    /\ UNCHANGED << input, ctype, chvars, pgvars >>

NextChunkType == TryFromBytes \/ FromStr \/ ReadFlags

SpecChunkType == InitChunkType /\ [][NextChunkType]_vars

----------------------------------------------------------------------------
(* Chunk encoding and decoding: `value` is the byte slice handed to        *)
(* Chunk::try_from.  It is the serialization of a chunk built with         *)
(* Chunk::new (`orig`), possibly altered on the way, or forged input.      *)

InitChunk == IdleChunkType /\ IdleChunk /\ IdleProgram

\* Chunk::new(t, d).as_bytes()
Serialize(t, d) ==
    /\ edit.op = "-"
    /\ orig' = Chunk_new(t, d)
    /\ value' = as_bytes(Chunk_new(t, d))
    /\ edit' = [NoEdit EXCEPT !.op = "none"]
    /\ UNCHANGED << res, ctvars, pgvars >>

\* Input framed like a chunk, with a CRC that matches, whose type field is
\* any 4 bytes.
Forge(code, d) ==
    /\ edit.op = "-"
    /\ value' = to_be_bytes(as_u32(Len(d))) \o code \o d
                    \o to_be_bytes(checksum(code \o d))
    /\ edit' = [NoEdit EXCEPT !.op = "forge"]
    /\ UNCHANGED << orig, res, ctvars, pgvars >>

\* One bit of the serialized chunk is inverted.
FlipBit(i, b) ==
    /\ edit.op = "none"
    /\ res = Pending
    /\ i \in 1..Len(value)
    /\ value' = FlipBitAt(value, i, b)
    /\ edit' = [op |-> "flip", at |-> i, bit |-> b]
    /\ UNCHANGED << orig, res, ctvars, pgvars >>

\* The length field is overwritten.
SetLength(l) ==
    /\ edit.op = "none"
    /\ res = Pending
    /\ to_be_bytes(l) # SubSeq(value, 1, 4)
    /\ value' = to_be_bytes(l) \o SubSeq(value, 5, Len(value))
    /\ edit' = [NoEdit EXCEPT !.op = "len"]
    /\ UNCHANGED << orig, res, ctvars, pgvars >>

\* The last byte is lost.
Truncate ==
    /\ edit.op \in {"none", "cut"}
    /\ res = Pending
    /\ Len(value) > 0
    /\ value' = SubSeq(value, 1, Len(value) - 1)
    /\ edit' = [op |-> "cut", at |-> edit.at + 1, bit |-> 0]
    /\ UNCHANGED << orig, res, ctvars, pgvars >>

\* A byte follows the CRC.
AppendByte(b) ==
    /\ edit.op \in {"none", "ext"}
    /\ res = Pending
    /\ edit.at < MaxTrail
    /\ value' = Append(value, b)
    /\ edit' = [op |-> "ext", at |-> edit.at + 1, bit |-> 0]
    /\ UNCHANGED << orig, res, ctvars, pgvars >>

\* Chunk::try_from(value)
Decode ==
    /\ edit.op # "-"
    /\ res = Pending
    /\ res' = Chunk_try_from(value)
    /\ UNCHANGED << value, orig, edit, ctvars, pgvars >>

NextChunk ==
    \/ \E t \in ChunkTypes, d \in Datas(MaxData) : Serialize(t, d)
    \/ \E code \in ForgedCodes, d \in Datas(MaxData) : Forge(code, d)
    \/ \E i \in 1..(12 + MaxData), b \in 0..7 : FlipBit(i, b)
    \/ \E l \in LengthFields : SetLength(l)
    \/ Truncate
    \/ \E b \in DataBytes : AppendByte(b)
    \/ Decode

SpecChunk == InitChunk /\ [][NextChunk]_vars

----------------------------------------------------------------------------
(* The program: the commands of main.rs run one after the other on one     *)
(* file, which may be damaged between two runs.                            *)

Init ==
    /\ file \in InitialFiles
    /\ run = NoRun
    /\ tampered = FALSE
    /\ IdleChunkType
    /\ IdleChunk

Ran(cmd, chunk_type, message, o) ==
    [cmd |-> cmd, chunk_type |-> chunk_type, message |-> message,
     input |-> file, exit |-> o.exit, parsed |-> o.parsed,
     ret |-> o.ret, after |-> o.after]

\* The file holds fewer than MaxChunks chunks, or does not parse.
Room ==
    IsOk(Png_try_from(file)) => Len(Png_try_from(file).val.chunks) < MaxChunks

\* pngme encode <file> <chunk_type> <message>
Encode(chunk_type, message) ==
    /\ Room
    /\ \E o \in { encode(file, chunk_type, message) } :
          /\ file' = o.file
          /\ run' = Ran("encode", chunk_type, message, o)
    /\ UNCHANGED << tampered, ctvars, chvars >>

\* pngme decode <file> <chunk_type>
DecodeCmd(chunk_type) ==
    /\ \E o \in { decode(file, chunk_type) } :
          /\ file' = o.file
          /\ run' = Ran("decode", chunk_type, << >>, o)
    /\ UNCHANGED << tampered, ctvars, chvars >>

\* pngme remove <file> <chunk_type>
Remove(chunk_type) ==
    /\ \E o \in { remove(file, chunk_type) } :
          /\ file' = o.file
          /\ run' = Ran("remove", chunk_type, << >>, o)
    /\ UNCHANGED << tampered, ctvars, chvars >>

\* pngme print <file>
PrintCmd ==
    /\ \E o \in { print(file) } :
          /\ file' = o.file
          /\ run' = Ran("print", << >>, << >>, o)
    /\ UNCHANGED << tampered, ctvars, chvars >>

\* The file is damaged on disk: one bit is inverted.
Tamper(i, b) ==
    /\ ~tampered
    /\ i \in TamperAt(file)
    /\ file' = FlipBitAt(file, i, b)
    /\ tampered' = TRUE
    /\ run' = NoRun
    /\ UNCHANGED << ctvars, chvars >>

\* The file is damaged on disk: its last byte is lost.
Shorten ==
    /\ ~tampered
    /\ file' = SubSeq(file, 1, Len(file) - 1)
    /\ tampered' = TRUE
    /\ run' = NoRun
    /\ UNCHANGED << ctvars, chvars >>

Next ==
    \/ \E t \in TypeArgs, m \in Messages : Encode(t, m)
    \/ \E t \in TypeArgs : DecodeCmd(t)
    \/ \E t \in TypeArgs : Remove(t)
    \/ PrintCmd
    \/ \E i \in 1..(8 + 14 * (MaxChunks + 1)), b \in TamperBits : Tamper(i, b)
    \/ Shorten

Spec == Init /\ [][Next]_vars

----------------------------------------------------------------------------
(* Properties *)

Letter(b) == b \in (65..90) \cup (97..122)
Bit5(b) == (b \div 32) % 2
Decided == res # Pending

\* The value of a slice's length field is at most n - 12: the slice holds
\* the 12 + L bytes the field frames when n is its length.
Frames(bs, n) == Len(bs) >= 8 /\ EndWithin(from_be_bytes(SubSeq(bs, 1, 4)), n - 4)

\* The last 4 bytes of a slice are not the CRC of the bytes between its
\* length field and them.
CrcDiffers(bs) ==
    from_be_bytes(SubSeq(bs, Len(bs) - 3, Len(bs)))
        # checksum(SubSeq(bs, 5, Len(bs) - 4))

\* C1: decoding the bytes as_bytes produces for Chunk::new(t, d) succeeds and
\* yields a chunk with the same type, data, length() and crc().
C1_ChunkRoundTrip ==
    (edit.op = "none" /\ Decided) =>
        /\ IsOk(res)
        /\ res.val.chunk_type = orig.chunk_type
        /\ res.val.data = orig.data
        /\ length(res.val) = length(orig)
        /\ crc(res.val) = crc(orig)

C1_Witness ==
    /\ edit.op = "none"
    /\ IsOk(res)
    /\ Len(orig.data) = 2
    /\ value[4] = 2

\* C2: a serialized chunk with one bit of its data or CRC region inverted
\* fails to decode with the CRC-mismatch error; and no slice whose last 4
\* bytes differ from the CRC of its type and data bytes decodes to a chunk.
C2_CrcIntegrity ==
    /\ (edit.op = "flip" /\ edit.at > 8 /\ Decided) =>
            (IsErr(res) /\ res.err = "Bad chunk: CRC mismatch")
    /\ (Decided /\ Len(value) >= 12 /\ CrcDiffers(value)) => ~IsOk(res)
    /\ ( /\ Decided
         /\ Frames(value, Len(value)) /\ ~Frames(value, Len(value) - 1)
         /\ \A i \in 5..8 : Letter(value[i])
         /\ CrcDiffers(value) ) =>
            (IsErr(res) /\ res.err = "Bad chunk: CRC mismatch")

C2_Witness ==
    /\ edit.op = "flip"
    /\ edit.at > 8
    /\ edit.at <= Len(value) - 4
    /\ IsErr(res)
    /\ res.err = "Bad chunk: CRC mismatch"

\* C3: Chunk::try_from returns a chunk or an error value for every slice; it
\* never panics.
C3_NeverPanics == res.kind # "Panic"

\* C10: a slice of at least 12 + L bytes, L its length field, decodes only
\* when it is exactly 12 + L bytes long: bytes after the CRC make decoding
\* return an error, and so does a type field with a byte that is no letter.
C10_ExactFraming ==
    Decided =>
        /\ (Frames(value, Len(value)) /\ IsOk(res)) =>
                Len(value) = 12 + as_usize(from_be_bytes(SubSeq(value, 1, 4)))
        /\ Frames(value, Len(value) - 1) => IsErr(res)
        /\ (Len(value) >= 8 /\ \E i \in 5..8 : ~Letter(value[i])) => IsErr(res)

C10_Witness ==
    /\ edit.op = "ext"
    /\ IsErr(res)
    /\ IsOk(Chunk_try_from(SubSeq(value, 1, Len(value) - edit.at)))

\* C4: try_from on 4 bytes succeeds iff all 4 are ASCII letters, and the type
\* then holds those bytes; from_str succeeds iff the string is 4 bytes long,
\* all letters, and then gives what try_from gives; otherwise an error.
C4_TypeConstruction ==
    /\ ctype.via = "try_from" =>
        /\ IsOk(ctype.res) <=> \A i \in 1..4 : Letter(input[i])
        /\ IsOk(ctype.res) => bytes(ctype.res.val) = input
        /\ ~IsOk(ctype.res) => (IsErr(ctype.res) /\ ctype.res.val = NoVal)
    /\ ctype.via = "from_str" =>
        /\ IsOk(ctype.res) <=>
                (Len(input) = 4 /\ \A i \in 1..Len(input) : Letter(input[i]))
        /\ IsOk(ctype.res) => ctype.res = ChunkType_try_from(input)
        /\ ~IsOk(ctype.res) => (IsErr(ctype.res) /\ ctype.res.val = NoVal)

C4_Witness ==
    /\ ctype.via = "from_str"
    /\ IsOk(ctype.res)
    /\ input = << 82, 117, 83, 116 >>

----------------------------------------------------------------------------
(* Properties of the container, on the last command run *)

Parsed == run.cmd # "-" /\ IsOk(run.parsed)

\* The command's chunk_type argument is a chunk type.
TypeOk == Len(run.chunk_type) = 4 /\ \A i \in 1..4 : Letter(run.chunk_type[i])

ArgType == [code |-> run.chunk_type]

\* The positions of the chunks of type t in the sequence s.
Matches(s, t) == { i \in 1..Len(s) : s[i].chunk_type = t }

First(s, t) == CHOOSE i \in Matches(s, t) : \A j \in Matches(s, t) : i <= j

\* The sequence s without its i-th element.
Without(s, i) == [j \in 1..(Len(s) - 1) |-> IF j < i THEN s[j] ELSE s[j + 1]]

\* C6: the container parsed from a file serializes back to the file's bytes,
\* and parsing that serialization gives the same chunks in the same order.
C6_ContainerRoundTrip ==
    Parsed =>
        /\ Png_as_bytes(run.parsed.val) = run.input
        /\ SubSeq(Png_as_bytes(run.parsed.val), 1, 8) = STANDARD_HEADER
        /\ Png_try_from(Png_as_bytes(run.parsed.val)) = run.parsed

C6_Witness ==
    /\ Parsed
    /\ run.cmd = "print"
    /\ Len(run.parsed.val.chunks) = 2
    /\ run.parsed.val.chunks[1].data = << 255 >>

C8_AppendLookup ==
    /\ (Parsed /\ run.cmd = "encode" /\ TypeOk) =>
        /\ run.after.chunks =
                Append(run.parsed.val.chunks, Chunk_new(ArgType, run.message))
        /\ Matches(run.parsed.val.chunks, ArgType) = {} =>
                chunk_by_type(run.after, ArgType)
                    = Some(Chunk_new(ArgType, run.message))
        /\ Matches(run.parsed.val.chunks, ArgType) # {} =>
                chunk_by_type(run.after, ArgType)
                    = Some(run.parsed.val.chunks[
                                First(run.parsed.val.chunks, ArgType)])
    /\ (Parsed /\ run.cmd = "decode" /\ TypeOk) =>
        /\ run.ret = IF Matches(run.parsed.val.chunks, ArgType) = {}
                     THEN None
                     ELSE Some(run.parsed.val.chunks[
                                    First(run.parsed.val.chunks, ArgType)])
        /\ run.after = run.parsed.val
        /\ file = run.input
    /\ ( /\ Parsed /\ run.cmd = "remove" /\ TypeOk
         /\ Cardinality(Matches(run.parsed.val.chunks, ArgType)) = 1 ) =>
            chunk_by_type(run.after, ArgType) = None

C8_Witness ==
    /\ Parsed
    /\ run.cmd = "decode"
    /\ TypeOk
    /\ Cardinality(Matches(run.parsed.val.chunks, ArgType)) = 2
    /\ run.ret.some
    /\ run.ret.val = run.parsed.val.chunks[1]
    /\ run.ret.val # run.parsed.val.chunks[2]

RECURSIVE FirstFailure(_, _)
\* The error of the first chunk of bs, from index `cursor` on, that fails to
\* decode; Pending when none of the chunks framed in bs does.
FirstFailure(bs, cursor) ==
    IF ~( /\ Len(bs) - cursor + 1 >= 4
          /\ EndWithin(from_be_bytes(SubSeq(bs, cursor, cursor + 3)),
                       Len(bs) - cursor + 1 - 4) )
    THEN Pending
    ELSE LET size == 12 + as_usize(from_be_bytes(SubSeq(bs, cursor, cursor + 3)))
             r    == Chunk_try_from(SubSeq(bs, cursor, cursor + size - 1))
         IN  IF IsOk(r) THEN FirstFailure(bs, cursor + size) ELSE r

SignatureOk(bs) == Len(bs) >= 8 /\ \A i \in 1..8 : bs[i] = STANDARD_HEADER[i]

\* C9: parsing a file whose first 8 bytes are not the signature fails with
\* the signature error, whatever follows, and gives no container; with the
\* signature in place, the decode error of a chunk is the parse's error.
C9_ParseErrors ==
    run.cmd # "-" =>
        /\ ~SignatureOk(run.input) =>
            /\ IsErr(run.parsed)
            /\ run.parsed.err = "Bad PNG: invalid signature"
            /\ run.parsed.val = NoVal
            /\ run.exit = run.parsed
            /\ file = run.input
        /\ (SignatureOk(run.input) /\ FirstFailure(run.input, 9) # Pending) =>
            /\ run.parsed = FirstFailure(run.input, 9)
            /\ run.exit = run.parsed
            /\ file = run.input

C9_Witness ==
    /\ run.cmd # "-"
    /\ ~SignatureOk(run.input)
    /\ IsOk(ParseChunks(run.input, 9, << >>))
    /\ Len(ParseChunks(run.input, 9, << >>).val.chunks) = 2
    /\ IsErr(run.exit)

====
